---- MODULE Spec2Model ----
(***************************************************************************)
(* Model of the role-assessment pipeline of ai_workforce_transition:       *)
(*   assessment/forms.py     RoleAssessmentForm (input selection)          *)
(*   assessment/views.py     AssessmentView.form_valid (quota gate)        *)
(*   assessment/models.py    UserProfile.decrement_run (quota counter)     *)
(*   assessment/services.py  analyze_role and the result normalizer        *)
(*                                                                         *)
(* A Python str is modelled as a sequence of text chunks whose             *)
(* concatenation is the string; strings that the code inspects character   *)
(* by character (file names, numeric strings) are written one character    *)
(* per chunk.                                                              *)
(***************************************************************************)
EXTENDS Integers, Sequences, FiniteSets, TLC

VARIABLES
    runs_remaining,   \* UserProfile.runs_remaining as stored in the database
    allowance,        \* the stored runs_remaining when the model starts
    pc,               \* per request: where the request is in form_valid / analyze_role
    req,              \* per request: the request's local state
    submitted,        \* number of submissions made so far
    succeeded,        \* number of analyze_role calls that returned a result
    input,            \* argument of the pure function under study
    output            \* its result, NotCalled before the call

vars == <<runs_remaining, allowance, pc, req, submitted, succeeded, input, output>>
sysVars == <<runs_remaining, allowance, pc, req, submitted, succeeded>>

\* bounds of the model
LongListLen == 9      \* length of the longest list a payload holds
MaxPad == 1           \* blanks before and after a description
MaxSubmissions == 2   \* submissions made in one run of the model
NumRequests == 2      \* requests in flight at once
ScoreMargin == 3      \* raw scores range from -ScoreMargin to 100 + ScoreMargin

NotCalled == [called |-> FALSE]

\* the request machinery is not used by the specifications of the pure functions
SysIdle ==
    /\ runs_remaining = 0
    /\ allowance = 0
    /\ pc = <<>>
    /\ req = <<>>
    /\ submitted = 0
    /\ succeeded = 0

Max(a, b) == IF a >= b THEN a ELSE b
Min(a, b) == IF a <= b THEN a ELSE b

(***************************************************************************)
(* Score functions (services.py)                                           *)
(***************************************************************************)
MAX_SCORE == 100
READY_BAND == 75
GUIDE_READY_ABOVE == 74
PARTIAL_BAND == 50

CAT_FULL == "Ready for full transition"
CAT_PARTIAL == "AI-assisted partial transition (FTE reduction, but not a full replacement)"
CAT_PRODUCTIVITY == "Productivity improvement with AI, but revisit transition at the suggested timeframe"

GUIDE_FULL == "This role might be ready for full transition ..."
GUIDE_PARTIAL == "Focus research on orchestrating AI-assisted partial transitions ..."
GUIDE_PRODUCTIVITY == "Direct research toward productivity boosters and risk mitigation ..."

\* max(0, min(int(score), 100)) on an int
_clamp_score(score) == Max(0, Min(score, MAX_SCORE))

\* Python round() of the non-negative rational num/den: nearest integer, ties to even
Round(num, den) ==
    LET q == num \div den
        r == num % den
    IN  IF 2 * r < den THEN q
        ELSE IF 2 * r > den THEN q + 1
        ELSE IF q % 2 = 0 THEN q ELSE q + 1

\* adjusted = ((clamped - 1) * 74.0 / 99.0) + 1 ; scaled = (adjusted / 75.0) * 100.0
\* kept exact: adjusted = adjNum/99, scaled = adjNum*100 / (99*75).  The nearest
\* half-integer is at least 1/594 away from any scaled value, far beyond the
\* error of the double arithmetic, so the exact rounding is the code's rounding.
_transpose_readiness_score(score) ==
    LET clamped == _clamp_score(score)
        adjNum == (clamped - 1) * 74 + 99
    IN  IF clamped <= 0 THEN 0
        ELSE _clamp_score(Round(adjNum * 100, 99 * 75))

_readiness_category(score) ==
    IF score >= READY_BAND THEN CAT_FULL
    ELSE IF score > PARTIAL_BAND THEN CAT_PARTIAL
    ELSE CAT_PRODUCTIVITY

\* mutant: the full-transition guidance starts one point late
_research_guidance_late(score) ==
    IF score > GUIDE_READY_ABOVE + 1 THEN GUIDE_FULL
    ELSE IF score > PARTIAL_BAND THEN GUIDE_PARTIAL
    ELSE GUIDE_PRODUCTIVITY

_research_guidance(score) ==
    IF score > GUIDE_READY_ABOVE THEN GUIDE_FULL
    ELSE IF score > PARTIAL_BAND THEN GUIDE_PARTIAL
    ELSE GUIDE_PRODUCTIVITY

(***************************************************************************)
(* Values of a decoded JSON payload (what json.loads hands to the          *)
(* normalizer).  Every value is a record of one shape; t is the Python     *)
(* type: "null" (None), "bool", "int", "float" (finite, n in tenths),      *)
(* "inf" (float infinity, n its sign), "nan", "str", "list", "dict".       *)
(***************************************************************************)
JVal(t, n, s, items, pairs) == [t |-> t, n |-> n, s |-> s, items |-> items, pairs |-> pairs]
JNull == JVal("null", 0, <<>>, <<>>, <<>>)
JBool(b) == JVal("bool", IF b THEN 1 ELSE 0, <<>>, <<>>, <<>>)
JInt(n) == JVal("int", n, <<>>, <<>>, <<>>)
JFloat(tenths) == JVal("float", tenths, <<>>, <<>>, <<>>)
JInf(sign) == JVal("inf", sign, <<>>, <<>>, <<>>)
JNaN == JVal("nan", 0, <<>>, <<>>, <<>>)
JStr(s) == JVal("str", 0, s, <<>>, <<>>)
JList(items) == JVal("list", 0, <<>>, items, <<>>)
JDict(pairs) == JVal("dict", 0, <<>>, <<>>, pairs)

Digits == <<"0", "1", "2", "3", "4", "5", "6", "7", "8", "9">>
IsDigit(c) == \E i \in 1..Len(Digits) : Digits[i] = c
DigitValue(c) == (CHOOSE i \in 1..Len(Digits) : Digits[i] = c) - 1
IsSpace(c) == c \in {" ", "\n", "\t"}

\* str.strip(): drop leading and trailing whitespace characters
Strip(s) ==
    LET keep == {i \in 1..Len(s) : ~IsSpace(s[i])}
    IN  IF keep = {} THEN <<>>
        ELSE LET lo == CHOOSE i \in keep : \A j \in keep : i <= j
                 hi == CHOOSE i \in keep : \A j \in keep : i >= j
             IN  SubSeq(s, lo, hi)

RECURSIVE DigitsValue(_)
\* value of a run of decimal digits, underscores skipped
DigitsValue(s) ==
    IF Len(s) = 0 THEN 0
    ELSE LET front == SubSeq(s, 1, Len(s) - 1)
             c == s[Len(s)]
         IN  IF c = "_" THEN DigitsValue(front)
             ELSE 10 * DigitsValue(front) + DigitValue(c)

\* a run of decimal digits with single underscores between digits only
IsIntDigits(digits) ==
    /\ Len(digits) > 0
    /\ \A i \in 1..Len(digits) : IsDigit(digits[i]) \/ digits[i] = "_"
    /\ IsDigit(digits[1]) /\ IsDigit(digits[Len(digits)])
    /\ \A i \in 1..(Len(digits) - 1) : ~(digits[i] = "_" /\ digits[i + 1] = "_")

\* int(str) accepts the stripped text: an optional sign, then the digits; on
\* anything else it raises ValueError
IsIntLiteral(body) ==
    IF Len(body) > 0 /\ body[1] \in {"+", "-"} THEN IsIntDigits(Tail(body)) ELSE IsIntDigits(body)

\* int(str) of a stripped text it accepts
IntValue(body) ==
    IF body[1] = "-" THEN 0 - DigitsValue(Tail(body))
    ELSE IF body[1] = "+" THEN DigitsValue(Tail(body))
    ELSE DigitsValue(body)

\* int(float): truncation toward zero of a finite float given in tenths
Trunc(tenths) == IF tenths >= 0 THEN tenths \div 10 ELSE 0 - ((0 - tenths) \div 10)

NoException == "none"

\* _safe_int: int(value) with TypeError and ValueError replaced by the default;
\* int(float('inf')) raises OverflowError, which the except clause does not name
_safe_int(value, default) ==
    CASE value.t \in {"bool", "int"} -> [exc |-> NoException, v |-> value.n]
      [] value.t = "float" -> [exc |-> NoException, v |-> Trunc(value.n)]
      [] value.t = "inf" -> [exc |-> "OverflowError", v |-> 0]
      [] value.t = "nan" -> [exc |-> NoException, v |-> default]
      [] value.t = "str" ->
            [exc |-> NoException,
             v |-> IF IsIntLiteral(Strip(value.s)) THEN IntValue(Strip(value.s)) ELSE default]
      [] OTHER -> [exc |-> NoException, v |-> default]

RECURSIVE IntStr(_)
\* str(int) for a non-negative int, one character per chunk
IntStr(n) == IF n < 10 THEN <<Digits[n + 1]>> ELSE Append(IntStr(n \div 10), Digits[(n % 10) + 1])

SignedIntStr(n) == IF n < 0 THEN <<"-">> \o IntStr(0 - n) ELSE IntStr(n)

\* str(float) of a finite float given in tenths, e.g. 3.7, -0.5, 3.0
FloatStr(tenths) ==
    LET m == IF tenths < 0 THEN 0 - tenths ELSE tenths
    IN  (IF tenths < 0 THEN <<"-">> ELSE <<>>) \o IntStr(m \div 10) \o <<".">> \o IntStr(m % 10)

\* str() of a scalar
ScalarStr(value) ==
    CASE value.t = "null" -> <<"None">>
      [] value.t = "bool" -> IF value.n = 1 THEN <<"True">> ELSE <<"False">>
      [] value.t = "int" -> SignedIntStr(value.n)
      [] value.t = "float" -> FloatStr(value.n)
      [] value.t = "inf" -> IF value.n < 0 THEN <<"-inf">> ELSE <<"inf">>
      [] value.t = "nan" -> <<"nan">>
      [] value.t = "str" -> value.s
      [] OTHER -> <<>>

\* repr() of an element inside a container: strings are quoted
ScalarRepr(value) ==
    IF value.t = "str" THEN <<"'">> \o value.s \o <<"'">>
    ELSE IF value.t \in {"list", "dict"} THEN <<"...">>
    ELSE ScalarStr(value)

RECURSIVE JoinItems(_)
JoinItems(items) ==
    IF Len(items) = 0 THEN <<>>
    ELSE IF Len(items) = 1 THEN ScalarRepr(items[1])
    ELSE ScalarRepr(items[1]) \o <<", ">> \o JoinItems(Tail(items))

RECURSIVE JoinPairs(_)
JoinPairs(pairs) ==
    IF Len(pairs) = 0 THEN <<>>
    ELSE LET one == <<"'", pairs[1][1], "': ">> \o ScalarRepr(pairs[1][2])
         IN  IF Len(pairs) = 1 THEN one ELSE one \o <<", ">> \o JoinPairs(Tail(pairs))

\* str(value) as _parse_payload applies it to a string field
Str(value) ==
    CASE value.t = "list" -> <<"[">> \o JoinItems(value.items) \o <<"]">>
      [] value.t = "dict" -> <<"{">> \o JoinPairs(value.pairs) \o <<"}">>
      [] OTHER -> ScalarStr(value)

\* bool(value): what (value or default) tests
Truthy(value) ==
    CASE value.t = "null" -> FALSE
      [] value.t \in {"bool", "int", "float"} -> value.n # 0
      [] value.t \in {"inf", "nan"} -> TRUE
      [] value.t = "str" -> Len(value.s) > 0
      [] value.t = "list" -> Len(value.items) > 0
      [] OTHER -> Len(value.pairs) > 0

\* payload.get(key): the value stored under key, None when the key is missing
Get(payload, key) ==
    IF \E i \in 1..Len(payload.pairs) : payload.pairs[i][1] = key
    THEN payload.pairs[CHOOSE i \in 1..Len(payload.pairs) : payload.pairs[i][1] = key][2]
    ELSE JNull

\* the dict comprehension of _safe_dict over the items of the dict, given what
\* _safe_int made of each value: the first exception raised, or the new dict
_safe_dict_items(pairs, coerced) ==
    IF \E i \in 1..Len(pairs) : coerced[i].exc # NoException
    THEN [exc |-> coerced[CHOOSE i \in 1..Len(pairs) :
                              /\ coerced[i].exc # NoException
                              /\ \A j \in 1..(i - 1) : coerced[j].exc = NoException].exc,
          v |-> <<>>]
    ELSE [exc |-> NoException, v |-> [i \in 1..Len(pairs) |-> <<pairs[i][1], coerced[i].v>>]]

\* _safe_dict: a dict becomes {str(k): _safe_int(v, 0)}, anything else {}
_safe_dict(value) ==
    IF value.t = "dict"
    THEN _safe_dict_items(value.pairs, [i \in 1..Len(value.pairs) |-> _safe_int(value.pairs[i][2], 0)])
    ELSE [exc |-> NoException, v |-> <<>>]

RECURSIVE _safe_list_items(_)
_safe_list_items(items) ==
    IF Len(items) = 0 THEN <<>>
    ELSE LET item == items[1]
             rest == _safe_list_items(Tail(items))
         IN  IF item.t = "str" THEN <<item.s>> \o rest
             ELSE IF item.t \in {"bool", "int", "float", "inf", "nan"} THEN <<ScalarStr(item)>> \o rest
             ELSE rest

\* _safe_list: keeps the str items, stringifies the int and float items (bool is
\* an int), drops every other item; a non-list becomes []
_safe_list(value) == IF value.t = "list" THEN _safe_list_items(value.items) ELSE <<>>

TIME_HORIZON_DEFAULT == <<"Time horizon unavailable">>
RECOMMENDATION_DEFAULT == <<"Recommendation unavailable. Rerun the assessment.">>
REASSESSMENT_DEFAULT == <<"Reassessment guidance unavailable.">>
DUTY_SAMPLE_DEFAULT == <<<<"Role duties summary unavailable.">>>>
ROLE_EXCERPT_DEFAULT == <<"Role excerpt unavailable.">>
READINESS_DEFAULT == 0
RISK_DEFAULT == 50

\* str(payload.get(key) or default)
StrOr(payload, key, default) ==
    IF Truthy(Get(payload, key)) THEN Str(Get(payload, key)) ELSE default

NoResult == [none |-> TRUE]
Raised(exc) == [exc |-> exc, result |-> NoResult]

\* _parse_payload: the AssessmentResult, or the exception that leaves the function.
\* payload.get on a payload that is no dict (None) is an AttributeError.
_parse_payload(payload) ==
    IF payload.t # "dict" THEN Raised("AttributeError")
    ELSE
    LET readiness == _safe_int(Get(payload, "readiness_score"), READINESS_DEFAULT)
        risk == _safe_int(Get(payload, "risk_score"), RISK_DEFAULT)
        transformed_readiness == _transpose_readiness_score(readiness.v)
        automatable == _safe_dict(Get(payload, "automatable_signals"))
        risk_signals == _safe_dict(Get(payload, "risk_signals"))
        duty_sample == _safe_list(Get(payload, "duty_sample"))
        research == _safe_list(Get(payload, "research_insights"))
    IN  IF readiness.exc # NoException THEN Raised(readiness.exc)
        ELSE IF risk.exc # NoException THEN Raised(risk.exc)
        ELSE IF automatable.exc # NoException THEN Raised(automatable.exc)
        ELSE IF risk_signals.exc # NoException THEN Raised(risk_signals.exc)
        ELSE [exc |-> NoException,
              result |-> [
                readiness_score |-> transformed_readiness,
                readiness_category |-> _readiness_category(transformed_readiness),
                time_horizon |-> StrOr(payload, "time_horizon", TIME_HORIZON_DEFAULT),
                risk_score |-> _clamp_score(risk.v),
                recommendation |-> StrOr(payload, "recommendation", RECOMMENDATION_DEFAULT),
                reassessment_time |-> StrOr(payload, "reassessment_time", REASSESSMENT_DEFAULT),
                automatable_signals |-> automatable.v,
                risk_signals |-> risk_signals.v,
                duty_sample |-> IF Len(duty_sample) > 0 THEN duty_sample ELSE DUTY_SAMPLE_DEFAULT,
                role_excerpt |-> StrOr(payload, "role_excerpt", ROLE_EXCERPT_DEFAULT),
                research_guidance |-> _research_guidance(transformed_readiness),
                research_insights |-> research]]

(***************************************************************************)
(* Payload extractor (services.py extract_and_load_json).  A response text *)
(* is a sequence of chunks: the fence (three backquotes), the tag "json",  *)
(* the newline, the JSON punctuation, JSON literals, and prose.            *)
(***************************************************************************)
\* the markdown fence, three backquotes
FENCE == "<fence>"
NL == "\n"

\* the JSON literals of the model's texts and the Python values json.loads gives them
Literals == <<
    [tok |-> "\"readiness_score\"", val |-> JStr(<<"readiness_score">>)],
    [tok |-> "\"risk_score\"", val |-> JStr(<<"risk_score">>)],
    [tok |-> "\"time_horizon\"", val |-> JStr(<<"time_horizon">>)],
    [tok |-> "\"duty_sample\"", val |-> JStr(<<"duty_sample">>)],
    [tok |-> "\"risk_signals\"", val |-> JStr(<<"risk_signals">>)],
    [tok |-> "\"5-8 years\"", val |-> JStr(<<"5-8 years">>)],
    [tok |-> "\"Designing\"", val |-> JStr(<<"Designing">>)],
    [tok |-> "90", val |-> JInt(90)],
    [tok |-> "30", val |-> JInt(30)],
    [tok |-> "70", val |-> JInt(70)],
    [tok |-> "3", val |-> JInt(3)],
    [tok |-> "1e999", val |-> JInf(1)],
    [tok |-> "null", val |-> JNull],
    [tok |-> "true", val |-> JBool(TRUE)]
>>

IsLiteral(tok) == \E i \in 1..Len(Literals) : Literals[i].tok = tok
LiteralValue(tok) == Literals[CHOOSE i \in 1..Len(Literals) : Literals[i].tok = tok].val

RECURSIVE Concat(_)
\* the str a chunk sequence stands for
Concat(chunks) == IF Len(chunks) = 0 THEN "" ELSE chunks[1] \o Concat(Tail(chunks))

RECURSIVE SkipWs(_, _)
\* index of the first chunk at or after i that is not JSON whitespace (Len + 1 if none)
SkipWs(t, i) ==
    IF i > Len(t) THEN Len(t) + 1
    ELSE IF IsSpace(t[i]) THEN SkipWs(t, i + 1)
    ELSE i

ParseFail == [ok |-> FALSE, val |-> JNull, pos |-> 0]

RECURSIVE ParseValue(_, _), ParseMembers(_, _, _), ParseElements(_, _, _)

\* json decoder: the value that starts at chunk i (after whitespace) and the index
\* after it, or ParseFail (JSONDecodeError)
ParseValue(t, i) ==
    LET at == SkipWs(t, i)
    IN  IF at > Len(t) THEN ParseFail
        ELSE IF t[at] = "{" THEN
            LET first == SkipWs(t, at + 1)
            IN  IF first <= Len(t) /\ t[first] = "}"
                THEN [ok |-> TRUE, val |-> JDict(<<>>), pos |-> first + 1]
                ELSE ParseMembers(t, first, JDict(<<>>))
        ELSE IF t[at] = "[" THEN
            LET first == SkipWs(t, at + 1)
            IN  IF first <= Len(t) /\ t[first] = "]"
                THEN [ok |-> TRUE, val |-> JList(<<>>), pos |-> first + 1]
                ELSE ParseElements(t, first, <<>>)
        ELSE IF IsLiteral(t[at]) THEN [ok |-> TRUE, val |-> LiteralValue(t[at]), pos |-> at + 1]
        ELSE ParseFail

\* the members of an object from chunk i on, added to the dict read so far
ParseMembers(t, i, dict) ==
    LET colon == SkipWs(t, i + 1)
    IN  IF i > Len(t) \/ ~IsLiteral(t[i]) THEN ParseFail
        ELSE IF LiteralValue(t[i]).t # "str" THEN ParseFail
        ELSE IF colon > Len(t) \/ t[colon] # ":" THEN ParseFail
        ELSE LET value == ParseValue(t, colon + 1)
                 after == SkipWs(t, value.pos)
                 grown == JDict(IF \E k \in 1..Len(dict.pairs) :
                                      dict.pairs[k][1] = Concat(LiteralValue(t[i]).s)
                                THEN [k \in 1..Len(dict.pairs) |->
                                        IF dict.pairs[k][1] = Concat(LiteralValue(t[i]).s)
                                        THEN <<dict.pairs[k][1], value.val>>
                                        ELSE dict.pairs[k]]
                                ELSE Append(dict.pairs, <<Concat(LiteralValue(t[i]).s), value.val>>))
             IN  IF ~value.ok \/ after > Len(t) THEN ParseFail
                 ELSE IF t[after] = "}" THEN [ok |-> TRUE, val |-> grown, pos |-> after + 1]
                 ELSE IF t[after] = "," THEN ParseMembers(t, SkipWs(t, after + 1), grown)
                 ELSE ParseFail

\* the elements of an array from chunk i on, added to the items read so far
ParseElements(t, i, items) ==
    LET value == ParseValue(t, i)
        after == SkipWs(t, value.pos)
    IN  IF ~value.ok \/ after > Len(t) THEN ParseFail
        ELSE IF t[after] = "]"
             THEN [ok |-> TRUE, val |-> JList(Append(items, value.val)), pos |-> after + 1]
        ELSE IF t[after] = "," THEN ParseElements(t, after + 1, Append(items, value.val))
        ELSE ParseFail

\* json.loads: one value and nothing but whitespace after it
json_loads(t) ==
    LET value == ParseValue(t, 1)
    IN  IF value.ok /\ SkipWs(t, value.pos) > Len(t) THEN value ELSE ParseFail

\* the head of the pattern (fence, json, newline, opening brace) sits at chunk i
FenceOpensAt(text, i) ==
    /\ i + 3 <= Len(text)
    /\ text[i] = FENCE /\ text[i + 1] = "json" /\ text[i + 2] = NL /\ text[i + 3] = "{"

\* the tail of the pattern (closing brace, newline, fence) sits at chunk j
FenceClosesAt(text, j) ==
    /\ j + 2 <= Len(text)
    /\ text[j] = "}" /\ text[j + 1] = NL /\ text[j + 2] = FENCE

\* mutant: a greedy group, the match runs to the last closing fence
Search_greedy(text) ==
    LET starts == {i \in 1..Len(text) :
                     FenceOpensAt(text, i) /\ \E j \in (i + 4)..Len(text) : FenceClosesAt(text, j)}
    IN  IF starts = {} THEN [found |-> FALSE, group1 |-> <<>>]
        ELSE LET i == CHOOSE i \in starts : \A k \in starts : i <= k
                 ends == {j \in (i + 4)..Len(text) : FenceClosesAt(text, j)}
                 j == CHOOSE j \in ends : \A k \in ends : j >= k
             IN  [found |-> TRUE, group1 |-> SubSeq(text, i + 3, j)]

\* re.search(json_pattern, text, re.DOTALL): the leftmost position the
\* pattern matches at, and from there the shortest match; group 1 runs from the
\* brace that opens to the first brace followed by newline and fence
Search(text) ==
    LET starts == {i \in 1..Len(text) :
                     FenceOpensAt(text, i) /\ \E j \in (i + 4)..Len(text) : FenceClosesAt(text, j)}
    IN  IF starts = {} THEN [found |-> FALSE, group1 |-> <<>>]
        ELSE LET i == CHOOSE i \in starts : \A k \in starts : i <= k
                 ends == {j \in (i + 4)..Len(text) : FenceClosesAt(text, j)}
                 j == CHOOSE j \in ends : \A k \in ends : j <= k
             IN  [found |-> TRUE, group1 |-> SubSeq(text, i + 3, j)]

\* extract_and_load_json: the decoded object, or None (JNull) when the pattern is
\* not found or the captured text does not decode
extract_and_load_json(text) ==
    LET json_match == Search(text)
    IN  IF json_match.found
        THEN LET json_data == json_loads(json_match.group1)
             IN  IF json_data.ok THEN json_data.val ELSE JNull
        ELSE JNull

(***************************************************************************)
(* RoleAssessmentForm (forms.py)                                           *)
(***************************************************************************)
MAX_FILE_SIZE == 5242880
MIN_DESCRIPTION_LENGTH == 50

\* "(".pdf")" is a parenthesised str, not a tuple: iterating it yields its characters
FORM_SUPPORTED_EXTENSIONS == <<".", "p", "d", "f">>
\* services.py: a tuple of two strs
SUPPORTED_EXTENSIONS == << <<".", "p", "d", "f">>, <<".", "d", "o", "c", "x">> >>

MSG_NOT_BOTH == "Please provide either a role document or a role description, not both."
MSG_NEITHER == "Upload a role document or provide a role description to continue."
MSG_TOO_LARGE == "File is too large. Please upload a file under 5 MB."
MSG_UNSUPPORTED == "Unsupported file type. Please upload a PDF or DOCX file."
MSG_TOO_SHORT == "Please provide at least 50 characters describing the role."
NON_FIELD == "__all__"
NoError == [field |-> "", message |-> ""]

UpperCase == <<"A", "B", "C", "D", "E", "F", "G", "H", "I", "J", "K", "L", "M",
               "N", "O", "P", "Q", "R", "S", "T", "U", "V", "W", "X", "Y", "Z">>
LowerCase == <<"a", "b", "c", "d", "e", "f", "g", "h", "i", "j", "k", "l", "m",
               "n", "o", "p", "q", "r", "s", "t", "u", "v", "w", "x", "y", "z">>

\* str.lower(), character by character
Lower(s) ==
    [i \in 1..Len(s) |->
        IF \E k \in 1..Len(UpperCase) : UpperCase[k] = s[i]
        THEN LowerCase[CHOOSE k \in 1..Len(UpperCase) : UpperCase[k] = s[i]]
        ELSE s[i]]

\* str.endswith
EndsWith(s, suffix) ==
    /\ Len(suffix) <= Len(s)
    /\ SubSeq(s, Len(s) - Len(suffix) + 1, Len(s)) = suffix

\* an uploaded file as the form and the service see it; NoFile is None
NoFile == [present |-> FALSE, name |-> <<>>, size |-> 0]
File(name, size) == [present |-> TRUE, name |-> name, size |-> size]

\* bool(file_obj): None is false, a django File is bool(self.name)
FileTruthy(file_obj) == file_obj.present /\ Len(file_obj.name) > 0

\* RoleAssessmentForm._validate_file: the ValidationError it raises, or NoError
_validate_file(file_obj) ==
    IF file_obj.size > MAX_FILE_SIZE
    THEN [field |-> "role_document", message |-> MSG_TOO_LARGE]
    ELSE LET filename == Lower(file_obj.name)
         IN  IF ~ \E i \in 1..Len(FORM_SUPPORTED_EXTENSIONS) :
                      EndsWith(filename, <<FORM_SUPPORTED_EXTENSIONS[i]>>)
             THEN [field |-> "role_document", message |-> MSG_UNSUPPORTED]
             ELSE NoError

\* RoleAssessmentForm._validate_role_description
_validate_role_description(role_description) ==
    IF Len(role_description) < MIN_DESCRIPTION_LENGTH
    THEN [field |-> "role_description", message |-> MSG_TOO_SHORT]
    ELSE NoError

\* mutant: the presence tests look at the description before it is trimmed
clean_untrimmed(file_obj, description) ==
    LET role_description == Strip(description)
        cleaned == [role_document |-> file_obj, role_description |-> role_description]
        error ==
            IF FileTruthy(file_obj) /\ Len(description) > 0
            THEN [field |-> NON_FIELD, message |-> MSG_NOT_BOTH]
            ELSE IF ~FileTruthy(file_obj) /\ ~(Len(description) > 0)
            THEN [field |-> NON_FIELD, message |-> MSG_NEITHER]
            ELSE IF FileTruthy(file_obj) THEN _validate_file(file_obj)
            ELSE _validate_role_description(role_description)
    IN  [valid |-> error = NoError, error |-> error, cleaned_data |-> cleaned]

\* RoleAssessmentForm.clean on the field values of cleaned_data: whether the form is
\* valid, the ValidationError raised, and cleaned_data as clean() leaves it
clean(file_obj, description) ==
    LET role_description == Strip(description)
        cleaned == [role_document |-> file_obj, role_description |-> role_description]
        error ==
            IF FileTruthy(file_obj) /\ Len(role_description) > 0
            THEN [field |-> NON_FIELD, message |-> MSG_NOT_BOTH]
            ELSE IF ~FileTruthy(file_obj) /\ ~(Len(role_description) > 0)
            THEN [field |-> NON_FIELD, message |-> MSG_NEITHER]
            ELSE IF FileTruthy(file_obj) THEN _validate_file(file_obj)
            ELSE _validate_role_description(role_description)
    IN  [valid |-> error = NoError, error |-> error, cleaned_data |-> cleaned]

(***************************************************************************)
(* Remote analysis client (services.py)                                    *)
(***************************************************************************)
MSG_UPLOAD_FAILED == "Failed to upload role document for analysis. Please try again."
MSG_ANALYSIS_FAILED == "OpenAI analysis failed. Please try again later."
MSG_ONE_SOURCE == "Provide exactly one input source for analysis."
MSG_ONE_OF == "Expected exactly one of file_id or role_description."
MSG_QUOTA_USED == "You have used all five assessments available on your account."
MSG_BAD_DESCRIPTION == "We could not process this role description. Please try again with a different description."
MSG_BAD_FILE == "We could not process this file. Please upload a different PDF or DOCX."

\* an exception in flight: its class and message; NoRaise when none is
Exc(class, msg) == [exc |-> class, msg |-> msg]
NoRaise == Exc(NoException, "")

\* what the service answers to responses.create: the call raises, or returns a
\* response with an output list (items, each a list of typed contents) and a flat
\* output_text
Response(raises, output_items, output_text) ==
    [raises |-> raises, output |-> output_items, output_text |-> output_text]
NoResponse == Response(FALSE, <<>>, <<>>)
NothingSent == [type |-> "none", file_id |-> "", text |-> <<>>]

RECURSIVE ItemTexts(_)
\* the text of every content of one output item whose type is output_text, in order
ItemTexts(contents) ==
    IF Len(contents) = 0 THEN <<>>
    ELSE (IF contents[1].type = "output_text" THEN <<contents[1].text>> ELSE <<>>)
         \o ItemTexts(Tail(contents))

RECURSIVE OutputChunks(_)
OutputChunks(items) ==
    IF Len(items) = 0 THEN <<>> ELSE ItemTexts(items[1]) \o OutputChunks(Tail(items))

RECURSIVE Join(_)
\* "".join(chunks)
Join(texts) == IF Len(texts) = 0 THEN <<>> ELSE texts[1] \o Join(Tail(texts))

\* _extract_output_text: the text, or the AnalysisError for an empty response
_extract_output_text(response) ==
    LET chunks == OutputChunks(response.output)
    IN  IF Len(response.output) > 0 /\ Len(chunks) > 0
        THEN [exc |-> NoException, text |-> Strip(Join(chunks))]
        ELSE IF Len(response.output_text) > 0
        THEN [exc |-> NoException, text |-> Strip(response.output_text)]
        ELSE [exc |-> "AnalysisError", text |-> <<>>]

\* mutant: no except clause around the call, a transport error leaves as it is
_request_openai_analysis_unwrapped(file_id, role_description, response) ==
    IF (file_id # "") = (Len(role_description) > 0)
    THEN [exc |-> "ValueError", msg |-> MSG_ONE_OF, payload |-> JNull,
          called |-> FALSE, sent |-> NothingSent]
    ELSE IF response.raises
    THEN [exc |-> "APIConnectionError", msg |-> "Connection error.", payload |-> JNull,
          called |-> TRUE, sent |-> NothingSent]
    ELSE [exc |-> _extract_output_text(response).exc, msg |-> "",
          payload |-> IF _extract_output_text(response).exc = NoException
                      THEN extract_and_load_json(_extract_output_text(response).text)
                      ELSE JNull,
          called |-> TRUE, sent |-> NothingSent]

\* _request_openai_analysis: the exception or the payload it returns, whether the
\* network call was made, and the user content item it sent
_request_openai_analysis(file_id, role_description, response) ==
    IF (file_id # "") = (Len(role_description) > 0)
    THEN [exc |-> "ValueError", msg |-> MSG_ONE_OF, payload |-> JNull,
          called |-> FALSE, sent |-> NothingSent]
    ELSE
    LET sent == IF file_id # ""
                THEN [type |-> "input_file", file_id |-> file_id, text |-> <<>>]
                ELSE [type |-> "input_text", file_id |-> "",
                      text |-> <<"Role description:", NL>> \o Strip(role_description)]
        message_text == _extract_output_text(response)
    IN  IF response.raises \/ message_text.exc # NoException
        THEN [exc |-> "AnalysisError", msg |-> MSG_ANALYSIS_FAILED, payload |-> JNull,
              called |-> TRUE, sent |-> sent]
        ELSE [exc |-> NoException, msg |-> "", payload |-> extract_and_load_json(message_text.text),
              called |-> TRUE, sent |-> sent]

\* _validate_extension
_validate_extension(filename) ==
    LET lowered == Lower(filename)
    IN  IF ~ \E i \in 1..Len(SUPPORTED_EXTENSIONS) : EndsWith(lowered, SUPPORTED_EXTENSIONS[i])
        THEN Exc("UnsupportedFileType", MSG_UNSUPPORTED)
        ELSE NoRaise

\* _upload_role_document_to_openai: files.create succeeds or raises
_upload_role_document_to_openai(created) ==
    IF created THEN NoRaise ELSE Exc("AnalysisError", MSG_UPLOAD_FAILED)

\* mutant: a failed delete is not swallowed
_delete_remote_file_raising(deleted) ==
    IF deleted THEN NoRaise ELSE Exc("APIError", "delete failed")

\* _delete_remote_file: files.delete succeeds or raises; the exception is logged and
\* dropped
_delete_remote_file(deleted) == NoRaise

\* analyze_role up to its first network call: the exception raised, or the call to
\* make next
analyze_role_begin(uploaded_file, role_description) ==
    IF FileTruthy(uploaded_file) = (Len(role_description) > 0)
    THEN [raised |-> Exc("ValueError", MSG_ONE_SOURCE), next |-> "done"]
    ELSE IF FileTruthy(uploaded_file)
    THEN IF _validate_extension(uploaded_file.name) # NoRaise
         THEN [raised |-> _validate_extension(uploaded_file.name), next |-> "done"]
         ELSE [raised |-> NoRaise, next |-> "upload"]
    ELSE [raised |-> NoRaise, next |-> "request"]

\* analyze_role from the return of the analysis call (and of the delete in the
\* finally clause, whose exception would replace the pending one) to its own return
analyze_role_end(analysis, deletion) ==
    IF deletion # NoRaise THEN [exc |-> deletion.exc, msg |-> deletion.msg, result |-> NoResult]
    ELSE IF analysis.exc # NoException
    THEN [exc |-> analysis.exc, msg |-> analysis.msg, result |-> NoResult]
    ELSE LET parsed == _parse_payload(analysis.payload)
         IN  [exc |-> parsed.exc, msg |-> "", result |-> parsed.result]

(***************************************************************************)
(* Quota counter (models.py) and the view (views.py)                       *)
(***************************************************************************)
DEFAULT_RUN_ALLOWANCE == 5

\* UserProfile.decrement_run on the in-memory profile: the new field value, whether
\* save() wrote it to the database, and the return value
decrement_run(profile_runs) ==
    IF profile_runs <= 0
    THEN [runs_remaining |-> profile_runs, saved |-> FALSE, returned |-> FALSE]
    ELSE [runs_remaining |-> profile_runs - 1, saved |-> TRUE, returned |-> TRUE]

NoOutcome == [kind |-> "none", exc |-> NoException, field |-> "", message |-> "", result |-> NoResult]
ErrorOutcome(exc, field, message) ==
    [kind |-> "error", exc |-> exc, field |-> field, message |-> message, result |-> NoResult]

\* the except clauses of form_valid: the field and message given to form.add_error
form_valid_except(raised, uploaded_file, role_description) ==
    LET text_only == Len(role_description) > 0 /\ ~FileTruthy(uploaded_file)
    IN  IF raised.exc = "UnsupportedFileType"
        THEN ErrorOutcome(raised.exc, "role_document", raised.msg)
        ELSE IF raised.exc = "AnalysisError"
        THEN ErrorOutcome(raised.exc, IF text_only THEN "role_description" ELSE NON_FIELD, raised.msg)
        ELSE IF text_only
        THEN ErrorOutcome(raised.exc, "role_description", MSG_BAD_DESCRIPTION)
        ELSE ErrorOutcome(raised.exc, "role_document", MSG_BAD_FILE)

\* mutant: the quota is charged in a finally clause, whatever analyze_role did
form_valid_finish_always(profile_runs, uploaded_file, role_description, analysis) ==
    LET decremented == decrement_run(profile_runs)
    IN  [outcome |-> IF analysis.exc # NoException
                     THEN form_valid_except(Exc(analysis.exc, analysis.msg), uploaded_file, role_description)
                     ELSE [kind |-> "result", exc |-> NoException, field |-> "", message |-> "",
                           result |-> analysis.result],
         profile_runs |-> decremented.runs_remaining,
         saved |-> decremented.saved,
         decrement_called |-> TRUE]

\* form_valid from the return of analyze_role: the except clauses, or the else
\* clause that calls profile.decrement_run()
form_valid_finish(profile_runs, uploaded_file, role_description, analysis) ==
    IF analysis.exc # NoException
    THEN [outcome |-> form_valid_except(Exc(analysis.exc, analysis.msg), uploaded_file, role_description),
          profile_runs |-> profile_runs,
          saved |-> FALSE,
          decrement_called |-> FALSE]
    ELSE LET decremented == decrement_run(profile_runs)
         IN  [outcome |-> [kind |-> "result", exc |-> NoException, field |-> "", message |-> "",
                           result |-> analysis.result],
              profile_runs |-> decremented.runs_remaining,
              saved |-> decremented.saved,
              decrement_called |-> TRUE]

(***************************************************************************)
(* SpecNormalizer: _parse_payload applied to one decoded payload           *)
(***************************************************************************)
Keys == <<"readiness_score", "time_horizon", "risk_score", "recommendation",
          "reassessment_time", "automatable_signals", "risk_signals", "duty_sample",
          "role_excerpt", "research_insights">>

\* the values a key of the payload is given: every JSON type, right and wrong
SampleValues == <<
    JNull, JBool(TRUE), JBool(FALSE),
    JInt(0), JInt(0 - ScoreMargin), JInt(42), JInt(75), JInt(90), JInt(MAX_SCORE + ScoreMargin),
    JFloat(0), JFloat(37), JFloat(0 - 5), JFloat(905),
    JInf(1), JInf(0 - 1), JNaN,
    JStr(<<>>), JStr(<<"4", "2">>), JStr(<<" ", "-", "7", " ">>), JStr(<<"1", "_", "0">>),
    JStr(<<"4", ".", "5">>), JStr(<<"a", "b">>), JStr(<<" ">>),
    JList(<<>>),
    JList(<<JStr(<<"a">>), JInt(3), JNull, JFloat(15), JBool(TRUE), JList(<<>>),
            JDict(<<>>), JStr(<<>>), JNaN>>),
    JList([i \in 1..LongListLen |-> JStr(<<"duty">>)]),
    JDict(<<>>),
    JDict(<<<<"reviews", JInt(3)>>, <<"triage", JStr(<<"2">>)>>, <<"audit", JNull>>,
            <<"intake", JFloat(29)>>, <<"filing", JList(<<>>)>>>>),
    JDict(<<<<"reviews", JInf(1)>>>>)
>>

EmptyPayload == JDict(<<>>)

WellFormedPayload == JDict(<<
    <<"readiness_score", JInt(30)>>,
    <<"time_horizon", JStr(<<"5-8 years">>)>>,
    <<"risk_score", JInt(70)>>,
    <<"recommendation", JStr(<<"Upskill.">>)>>,
    <<"reassessment_time", JStr(<<"3 years">>)>>,
    <<"automatable_signals", JDict(<<<<"routine_coding_tasks", JInt(3)>>>>)>>,
    <<"risk_signals", JDict(<<<<"solution_architecture_design", JInt(3)>>>>)>>,
    <<"duty_sample", JList(<<JStr(<<"Designing">>), JStr(<<"Researching">>)>>)>>,
    <<"role_excerpt", JStr(<<"AI Consultant">>)>>,
    <<"research_insights", JList(<<JStr(<<"Automation is advancing.">>)>>)>>
>>)

HasKey(payload, key) == \E i \in 1..Len(payload.pairs) : payload.pairs[i][1] = key

\* payload[key] = value
Override(payload, key, value) ==
    IF HasKey(payload, key)
    THEN JDict([i \in 1..Len(payload.pairs) |->
                  IF payload.pairs[i][1] = key THEN <<key, value>> ELSE payload.pairs[i]])
    ELSE JDict(Append(payload.pairs, <<key, value>>))

\* del payload[key]
Without(payload, key) == JDict(SelectSeq(payload.pairs, LAMBDA pair : pair[1] # key))

Payloads ==
    {EmptyPayload, WellFormedPayload}
    \cup {Without(WellFormedPayload, Keys[k]) : k \in 1..Len(Keys)}
    \cup {Override(base, Keys[k], SampleValues[i]) :
            base \in {EmptyPayload, WellFormedPayload},
            k \in 1..Len(Keys), i \in 1..Len(SampleValues)}

NormalizerInit ==
    /\ SysIdle
    /\ input \in Payloads
    /\ output = NotCalled

NormalizerApply ==
    /\ output = NotCalled
    /\ LET parsed == _parse_payload(input)
       IN  output' = [called |-> TRUE, exc |-> parsed.exc, result |-> parsed.result]
    /\ UNCHANGED <<input, sysVars>>

NormalizerNext == NormalizerApply

SpecNormalizer == NormalizerInit /\ [][NormalizerNext]_vars

\* a str that is not empty
IsText(x) == x \in Seq(STRING) /\ Len(x) > 0 /\ \E i \in 1..Len(x) : x[i] # ""
IsStrList(x) == \A i \in 1..Len(x) : x[i] \in Seq(STRING)
IsSignalMap(x) == \A i \in 1..Len(x) : x[i][1] \in STRING /\ x[i][2] \in Int
Categories == {CAT_FULL, CAT_PARTIAL, CAT_PRODUCTIVITY}
Guidances == {GUIDE_FULL, GUIDE_PARTIAL, GUIDE_PRODUCTIVITY}

\* every field of an AssessmentResult holds a value of its declared type, no string
\* field is empty, and both scores lie in 0..100
WellTyped(r) ==
    /\ r.readiness_score \in 0..100
    /\ r.risk_score \in 0..100
    /\ r.readiness_category \in Categories
    /\ r.research_guidance \in Guidances
    /\ IsText(r.time_horizon)
    /\ IsText(r.recommendation)
    /\ IsText(r.reassessment_time)
    /\ IsText(r.role_excerpt)
    /\ IsSignalMap(r.automatable_signals)
    /\ IsSignalMap(r.risk_signals)
    /\ IsStrList(r.duty_sample) /\ Len(r.duty_sample) > 0
    /\ IsStrList(r.research_insights)

\* C5: for any input mapping _parse_payload returns an AssessmentResult and never
\* raises; every field of the result has its declared type, no field is null or an
\* empty string, and readiness_score and risk_score are in 0..100.
C5_NormalizerTotal ==
    output.called => output.exc = NoException /\ WellTyped(output.result)

\* What the code does guarantee: whenever _parse_payload returns, the result is
\* well typed; the only payloads on which it raises hold a float infinity under an
\* integer field or inside a signal mapping.
HoldsInfinity(payload) ==
    \/ \E key \in {"readiness_score", "risk_score"} : Get(payload, key).t = "inf"
    \/ \E key \in {"automatable_signals", "risk_signals"} :
          /\ Get(payload, key).t = "dict"
          /\ \E i \in 1..Len(Get(payload, key).pairs) : Get(payload, key).pairs[i][2].t = "inf"

NormalizerRaisesOnlyOnInfinity ==
    output.called =>
        IF HoldsInfinity(input) THEN output.exc = "OverflowError"
        ELSE output.exc = NoException /\ WellTyped(output.result)

(***************************************************************************)
(* SpecForm: RoleAssessmentForm.clean applied to one submission            *)
(***************************************************************************)
FileNames == {
    <<"c", "v", ".", "p", "d", "f">>,
    <<"C", "V", ".", "P", "D", "F">>,
    <<"c", "v", ".", "P", "d", "f">>,
    <<"c", "v", ".", "d", "o", "c", "x">>,
    <<"n", "o", "t", "e", "s", ".", "m", "d">>,
    <<"p", "i", "c", ".", "g", "i", "f">>,
    <<"c", "v", ".", "t", "x", "t">>,
    <<"c", "v", ".", "p", "d", "f", ".", "e", "x", "e">>,
    <<"p", "d", "f">>,
    <<"c", "v", ".">>,
    <<"c", "v">> }

FileSizes == {1, MAX_FILE_SIZE, MAX_FILE_SIZE + 1}

\* a description: lead blanks, a body of n characters (a blank inside when n >= 3),
\* trail blanks
Description(lead, n, trail) ==
    [i \in 1..(lead + n + trail) |->
        IF i <= lead \/ i > lead + n THEN " "
        ELSE IF n >= 3 /\ i = lead + 2 THEN " "
        ELSE "x"]

BodyLengths == {0, 1, 3} \cup ((MIN_DESCRIPTION_LENGTH - 1) .. (MIN_DESCRIPTION_LENGTH + 1))
Descriptions == {Description(lead, n, trail) : lead \in 0..MaxPad, n \in BodyLengths, trail \in 0..MaxPad}

FormInit ==
    /\ SysIdle
    /\ input \in [role_document : {NoFile} \cup {File(name, size) : name \in FileNames, size \in FileSizes},
                  role_description : Descriptions]
    /\ output = NotCalled

FormClean ==
    /\ output = NotCalled
    /\ LET form == clean(input.role_document, input.role_description)
       IN  output' = [called |-> TRUE, valid |-> form.valid, error |-> form.error,
                      cleaned_data |-> form.cleaned_data]
    /\ UNCHANGED <<input, sysVars>>

FormNext == FormClean

SpecForm == FormInit /\ [][FormNext]_vars

DocumentGiven == input.role_document.present
DescriptionGiven == \E i \in 1..Len(input.role_description) : input.role_description[i] # " "

PdfSuffix == <<".", "p", "d", "f">>

\* C10: a document within the size limit whose lower-cased name does not end in
\* ".pdf" is rejected with the unsupported-file-type error on the document field
\* (so it never reaches analyze_role); one whose name ends in ".pdf" is accepted.
C10_ExtensionCheck ==
    (output.called /\ DocumentGiven /\ ~DescriptionGiven
        /\ input.role_document.size <= MAX_FILE_SIZE) =>
        IF EndsWith(Lower(input.role_document.name), PdfSuffix)
        THEN output.valid
        ELSE /\ ~output.valid
             /\ output.error = [field |-> "role_document", message |-> MSG_UNSUPPORTED]

(***************************************************************************)
(* SpecScore: the score functions applied to a pair of raw scores          *)
(***************************************************************************)
RawScores == (0 - ScoreMargin) .. (MAX_SCORE + ScoreMargin)

ScoreInit ==
    /\ SysIdle
    /\ input \in [a : RawScores, b : RawScores]
    /\ output = NotCalled

\* _parse_payload lines 194-196 on each of the two raw scores
ScoreApply ==
    /\ output = NotCalled
    /\ LET ta == _transpose_readiness_score(input.a)
           tb == _transpose_readiness_score(input.b)
       IN  output' = [called |-> TRUE,
                      a |-> ta,
                      b |-> tb,
                      category |-> _readiness_category(ta),
                      guidance |-> _research_guidance(ta)]
    /\ UNCHANGED <<input, sysVars>>

ScoreNext == ScoreApply

SpecScore == ScoreInit /\ [][ScoreNext]_vars

\* C6: the readiness remap sends raw 0 to 0 and raw 75 to 100, and is monotonically
\* non-decreasing over the raw scores 0..75.
C6_RemapFixedPointsMonotone ==
    output.called =>
        /\ (input.a = 0 => output.a = 0)
        /\ (input.a = 75 => output.a = 100)
        /\ (input.a \in 0..75 /\ input.b \in 0..75 /\ input.a <= input.b
               => output.a <= output.b)

\* the research_guidance template that belongs to a category
GuidanceOfCategory(category) ==
    IF category = CAT_FULL THEN GUIDE_FULL
    ELSE IF category = CAT_PARTIAL THEN GUIDE_PARTIAL
    ELSE GUIDE_PRODUCTIVITY

\* C8: over every remapped score in 0..100 the category is the full-transition band
\* iff score >= 75, the partial band iff 50 < score < 75, the productivity band iff
\* score <= 50, and the research guidance is the template of that same band.
C8_CategoryBands ==
    output.called =>
        /\ output.a \in 0..100
        /\ (output.category = CAT_FULL <=> output.a >= 75)
        /\ (output.category = CAT_PARTIAL <=> (50 < output.a /\ output.a < 75))
        /\ (output.category = CAT_PRODUCTIVITY <=> output.a <= 50)
        /\ output.guidance = GuidanceOfCategory(output.category)

\* C8 witness: the remapped score on the band boundary 75 has been categorised
C8_Witness ==
    /\ output.called
    /\ output.a = 75
    /\ output.category = CAT_FULL
    /\ output.guidance = GUIDE_FULL

(***************************************************************************)
(* Spec: requests of one account through the form, the view and            *)
(* analyze_role.  A request runs alone between its blocking calls (the     *)
(* profile read, files.create, responses.create, files.delete); requests   *)
(* of different workers interleave at those calls.                         *)
(***************************************************************************)
Requests == 1..NumRequests

TEXT_PDF == <<"c", "v", ".", "p", "d", "f">>
TEXT_MD == <<"n", "o", "t", "e", "s", ".", "m", "d">>
TEXT_DOCX == <<"c", "v", ".", "d", "o", "c", "x">>
RoleText == Description(1, MIN_DESCRIPTION_LENGTH, 0)

\* what a user posts: the field values the form hands to clean()
Submissions == {
    [role_document |-> NoFile, role_description |-> RoleText],
    [role_document |-> File(TEXT_PDF, 1), role_description |-> <<>>],
    [role_document |-> File(TEXT_MD, 1), role_description |-> <<>>],
    [role_document |-> File(TEXT_DOCX, 1), role_description |-> <<>>],
    [role_document |-> NoFile, role_description |-> <<" ">>] }

TEXT_READY_HEAD == <<"Here", " ", "it", " ", "is:", NL, FENCE, "json", NL, "{", NL,
                     "\"readiness_score\"", ":", " ", "90", ",", NL,
                     "\"time_horizon\"", ":", " ", "\"5-8 years\"", ",", NL>>
TEXT_READY_TAIL == <<"\"risk_score\"", ":", " ", "70", ",", NL,
                     "\"duty_sample\"", ":", " ", "[", "\"Designing\"", "]", NL,
                     "}", NL, FENCE, NL, "Done.", NL>>
TEXT_NO_FENCE == <<"I", " ", "cannot", " ", "assess", " ", "this.">>
TEXT_BAD_JSON == <<FENCE, "json", NL, "{", "\"risk_score\"", ":", "}", NL, FENCE>>

OutputText(text) == [type |-> "output_text", text |-> text]
OtherContent(type) == [type |-> type, text |-> <<>>]

\* what the service may answer to one responses.create call
ServiceResponses == <<
    Response(TRUE, <<>>, <<>>),
    Response(FALSE, << <<OtherContent("reasoning"), OutputText(TEXT_READY_HEAD)>>,
                       <<OutputText(TEXT_READY_TAIL)>> >>, <<>>),
    Response(FALSE, <<>>, TEXT_NO_FENCE),
    Response(FALSE, << <<OtherContent("web_search_call")>> >>, TEXT_BAD_JSON)
>>

NoAnalysis == [exc |-> NoException, msg |-> "", payload |-> JNull]

BlankRequest == [
    uploaded_file |-> NoFile,       \* cleaned_data["role_document"]
    role_description |-> <<>>,      \* cleaned_data["role_description"]
    profile_runs |-> 0,             \* runs_remaining of the profile object of this request
    file_id |-> "",                 \* file_resource.id
    uploads |-> 0,                  \* files.create calls made
    calls |-> 0,                    \* responses.create calls made
    deletes |-> 0,                  \* files.delete calls made
    delete_failed |-> FALSE,        \* the files.delete call raised
    sent |-> NothingSent,           \* the user content item of the analysis call
    response |-> NoResponse,        \* what the service answered
    analysis |-> NoAnalysis,        \* what _request_openai_analysis returned or raised
    decrement_called |-> FALSE,     \* profile.decrement_run() was called
    outcome |-> NoOutcome ]         \* what the view gives back

Init ==
    /\ runs_remaining \in 0..DEFAULT_RUN_ALLOWANCE
    /\ allowance = runs_remaining
    /\ pc = [r \in Requests |-> "idle"]
    /\ req = [r \in Requests |-> BlankRequest]
    /\ submitted = 0
    /\ succeeded = 0
    /\ input = <<>>
    /\ output = NotCalled

\* FormView.post on a worker that is free (it has served no request yet, or has
\* rendered the last one): the form is bound and cleaned; a valid form goes to
\* form_valid, an invalid one is rendered with its errors
Submit(r, submission) ==
    /\ pc[r] \in {"idle", "done"}
    /\ submitted < MaxSubmissions
    /\ submitted' = submitted + 1
    /\ \E form \in {clean(submission.role_document, submission.role_description)} :
           IF form.valid
           THEN /\ pc' = [pc EXCEPT ![r] = "form_valid"]
                /\ req' = [req EXCEPT ![r] = [BlankRequest EXCEPT
                              !.uploaded_file = form.cleaned_data.role_document,
                              !.role_description = form.cleaned_data.role_description]]
           ELSE /\ pc' = [pc EXCEPT ![r] = "done"]
                /\ req' = [req EXCEPT ![r] = [BlankRequest EXCEPT
                              !.uploaded_file = form.cleaned_data.role_document,
                              !.role_description = form.cleaned_data.role_description,
                              !.outcome = [kind |-> "invalid", exc |-> "ValidationError",
                                           field |-> form.error.field,
                                           message |-> form.error.message,
                                           result |-> NoResult]]]
    /\ UNCHANGED <<runs_remaining, allowance, succeeded, input, output>>

\* the view ends: form_valid_finish on what analyze_role returned or raised
Finish(r, request, analysis) ==
    \E done \in {form_valid_finish(request.profile_runs, request.uploaded_file,
                                   request.role_description, analysis)} :
        /\ pc' = [pc EXCEPT ![r] = "done"]
        /\ req' = [req EXCEPT ![r] = [request EXCEPT
                      !.profile_runs = done.profile_runs,
                      !.decrement_called = done.decrement_called,
                      !.outcome = done.outcome]]
        /\ runs_remaining' = IF done.saved THEN done.profile_runs ELSE runs_remaining
        /\ succeeded' = IF analysis.exc = NoException THEN succeeded + 1 ELSE succeeded

\* mutant: form_valid without the test of runs_remaining
FormValid_ungated(r) ==
    /\ pc[r] = "form_valid"
    /\ \E request \in {[req[r] EXCEPT !.profile_runs = runs_remaining]} :
       \E begin \in {analyze_role_begin(request.uploaded_file, request.role_description)} :
           IF begin.raised # NoRaise
           THEN Finish(r, request, [exc |-> begin.raised.exc, msg |-> begin.raised.msg,
                                    result |-> NoResult])
           ELSE /\ pc' = [pc EXCEPT ![r] = begin.next]
                /\ req' = [req EXCEPT ![r] = request]
                /\ UNCHANGED <<runs_remaining, succeeded>>
    /\ UNCHANGED <<allowance, submitted, input, output>>

\* form_valid up to the first network call of analyze_role: the profile is read
\* from the database, the quota is tested, analyze_role checks its arguments
FormValid(r) ==
    /\ pc[r] = "form_valid"
    /\ \E request \in {[req[r] EXCEPT !.profile_runs = runs_remaining]} :
       \E begin \in {analyze_role_begin(request.uploaded_file, request.role_description)} :
           IF request.profile_runs <= 0
           THEN /\ pc' = [pc EXCEPT ![r] = "done"]
                /\ req' = [req EXCEPT ![r] = [request EXCEPT
                              !.outcome = ErrorOutcome(NoException, NON_FIELD, MSG_QUOTA_USED)]]
                /\ UNCHANGED <<runs_remaining, succeeded>>
           ELSE IF begin.raised # NoRaise
           THEN Finish(r, request, [exc |-> begin.raised.exc, msg |-> begin.raised.msg,
                                    result |-> NoResult])
           ELSE /\ pc' = [pc EXCEPT ![r] = begin.next]
                /\ req' = [req EXCEPT ![r] = request]
                /\ UNCHANGED <<runs_remaining, succeeded>>
    /\ UNCHANGED <<allowance, submitted, input, output>>

\* _upload_role_document_to_openai: files.create returns a handle or raises
Upload(r, created) ==
    /\ pc[r] = "upload"
    /\ \E request \in {[req[r] EXCEPT !.uploads = @ + 1]} :
       \E raised \in {_upload_role_document_to_openai(created)} :
           IF raised # NoRaise
           THEN Finish(r, request, [exc |-> raised.exc, msg |-> raised.msg, result |-> NoResult])
           ELSE /\ pc' = [pc EXCEPT ![r] = "request"]
                /\ req' = [req EXCEPT ![r] = [request EXCEPT !.file_id = "file-abc"]]
                /\ UNCHANGED <<runs_remaining, succeeded>>
    /\ UNCHANGED <<allowance, submitted, input, output>>

\* _request_openai_analysis: responses.create answers; on the document path the
\* finally clause is next, on the text path analyze_role and the view run to the end
RequestAnalysis(r, response) ==
    /\ pc[r] = "request"
    /\ \E analysis \in {_request_openai_analysis(
                           req[r].file_id,
                           IF req[r].file_id # "" THEN <<>> ELSE req[r].role_description,
                           response)} :
       \E request \in {[req[r] EXCEPT
                          !.calls = IF analysis.called THEN @ + 1 ELSE @,
                          !.sent = analysis.sent,
                          !.response = response,
                          !.analysis = [exc |-> analysis.exc, msg |-> analysis.msg,
                                        payload |-> analysis.payload]]} :
           IF req[r].file_id # ""
           THEN /\ pc' = [pc EXCEPT ![r] = "delete"]
                /\ req' = [req EXCEPT ![r] = request]
                /\ UNCHANGED <<runs_remaining, succeeded>>
           ELSE \E returned \in {analyze_role_end(request.analysis, NoRaise)} :
                    Finish(r, request, returned)
    /\ UNCHANGED <<allowance, submitted, input, output>>

\* the finally clause: _delete_remote_file, then analyze_role and the view run to
\* the end
DeleteRemote(r, deleted) ==
    /\ pc[r] = "delete"
    /\ \E request \in {[req[r] EXCEPT !.deletes = @ + 1, !.delete_failed = ~deleted]} :
       \E returned \in {analyze_role_end(request.analysis, _delete_remote_file(deleted))} :
           Finish(r, request, returned)
    /\ UNCHANGED <<allowance, submitted, input, output>>

Next ==
    \E r \in Requests :
        \/ \E submission \in Submissions : Submit(r, submission)
        \/ FormValid(r)
        \/ \E created \in BOOLEAN : Upload(r, created)
        \/ \E i \in 1..Len(ServiceResponses) : RequestAnalysis(r, ServiceResponses[i])
        \/ \E deleted \in BOOLEAN : DeleteRemote(r, deleted)

Spec == Init /\ [][Next]_vars

\* C1: on the document path the uploaded handle gets exactly one delete attempt
\* when the upload succeeded, whether the analysis call returned or raised, and none
\* when the upload failed; a failed delete never changes what analyze_role gives
\* its caller (the result, or the error of the analysis).
C1_DeleteExactlyOnce ==
    \A r \in Requests :
        /\ req[r].deletes <= 1
        /\ (req[r].file_id = "" => req[r].deletes = 0)
        /\ (pc[r] \in {"upload", "request", "delete"} => req[r].deletes = 0)
        /\ (pc[r] = "done" /\ req[r].file_id # "") =>
              /\ req[r].uploads = 1
              /\ req[r].deletes = 1
              /\ req[r].outcome.exc =
                    IF req[r].analysis.exc # NoException THEN req[r].analysis.exc
                    ELSE _parse_payload(req[r].analysis.payload).exc
              /\ (req[r].outcome.kind = "result" <=> req[r].outcome.exc = NoException)

\* C1 witness: the upload succeeded, the analysis call raised, the one delete
\* attempt failed too, and the caller sees the analysis error
C1_Witness ==
    \E r \in Requests :
        /\ pc[r] = "done"
        /\ req[r].file_id # ""
        /\ req[r].analysis.exc = "AnalysisError"
        /\ req[r].deletes = 1
        /\ req[r].delete_failed
        /\ req[r].outcome.exc = "AnalysisError"

\* C2: the stored runs_remaining is the initial allowance less the number of
\* analyses that completed successfully, and is never negative, whatever the
\* interleaving of the requests of the account.
C2_QuotaExact ==
    /\ runs_remaining = allowance - succeeded
    /\ runs_remaining >= 0

\* C3: every failing path of form_valid hands the form back with an error message
\* and leaves runs_remaining as it was; decrement_run is called only when
\* analyze_role returned a result.
C3_FailureLeavesQuota ==
    [][\A r \in Requests :
          (pc[r] \in {"form_valid", "upload", "request", "delete"} /\ pc'[r] = "done") =>
              IF req'[r].outcome.kind = "result"
              THEN req'[r].decrement_called
              ELSE /\ req'[r].outcome.kind = "error"
                   /\ req'[r].outcome.message # ""
                   /\ ~req'[r].decrement_called
                   /\ runs_remaining' = runs_remaining]_vars

\* C3 witness: payload normalization raised inside analyze_role, the form carries
\* the error and the quota is untouched
C3_Witness ==
    \E r \in Requests :
        /\ pc[r] = "done"
        /\ req[r].outcome.kind = "error"
        /\ req[r].outcome.exc = "AttributeError"
        /\ req[r].outcome.message # ""
        /\ ~req[r].decrement_called
        /\ runs_remaining = allowance

\* the AssessmentResult whose every field is at its default
DefaultResult == [
    readiness_score |-> 0,
    readiness_category |-> CAT_PRODUCTIVITY,
    time_horizon |-> <<"Time horizon unavailable">>,
    risk_score |-> 50,
    recommendation |-> <<"Recommendation unavailable. Rerun the assessment.">>,
    reassessment_time |-> <<"Reassessment guidance unavailable.">>,
    automatable_signals |-> <<>>,
    risk_signals |-> <<>>,
    duty_sample |-> <<<<"Role duties summary unavailable.">>>>,
    role_excerpt |-> <<"Role excerpt unavailable.">>,
    research_guidance |-> GUIDE_PRODUCTIVITY,
    research_insights |-> <<>> ]

\* the text holds the opening of a fenced json block
HasJsonFence(text) == \E i \in 1..(Len(text) - 1) : text[i] = FENCE /\ text[i + 1] = "json"

\* C4: when the response text holds no fenced json block, or the fenced block does
\* not parse, analyze_role returns the AssessmentResult of defaults and does not
\* raise.
C4_NoFenceGivesDefaults ==
    \A r \in Requests :
        (/\ pc[r] = "done"
         /\ req[r].calls = 1
         /\ ~req[r].response.raises
         /\ _extract_output_text(req[r].response).exc = NoException
         /\ \/ ~HasJsonFence(_extract_output_text(req[r].response).text)
            \/ req[r].analysis.payload = JNull)
        => /\ req[r].outcome.kind = "result"
           /\ req[r].outcome.result = DefaultResult

\* C7: a valid free-text submission makes exactly one analysis call, with the text
\* inlined and no file reference, and no upload or delete call; when the response
\* holds a fenced JSON object with readiness_score 90 the result has
\* readiness_score 100 and the category "Ready for full transition".
C7_FreeTextScenario ==
    \A r \in Requests :
        (/\ pc[r] = "done"
         /\ ~req[r].uploaded_file.present
         /\ req[r].outcome.kind \in {"result", "error"}
         /\ req[r].outcome.message # MSG_QUOTA_USED)
        => /\ req[r].calls = 1
           /\ req[r].uploads = 0
           /\ req[r].deletes = 0
           /\ req[r].sent.type = "input_text"
           /\ req[r].sent.file_id = ""
           /\ req[r].sent.text = <<"Role description:", NL>> \o req[r].role_description
           /\ (/\ req[r].analysis.exc = NoException
               /\ req[r].analysis.payload.t = "dict"
               /\ Get(req[r].analysis.payload, "readiness_score") = JInt(90))
              => /\ req[r].outcome.kind = "result"
                 /\ req[r].outcome.result.readiness_score = 100
                 /\ req[r].outcome.result.readiness_category = CAT_FULL

(***************************************************************************)
(* SpecClient: one invocation of _request_openai_analysis.  The network    *)
(* call (responses.create) and the reading of what it returned are two     *)
(* steps; output records how many calls were made so far.                  *)
(***************************************************************************)
ClientFileIds == {"", "file-abc"}
ClientDescriptions == {Description(lead, n, trail) : lead \in 0..MaxPad, n \in {0, 3}, trail \in 0..MaxPad}

\* what the service may answer: a transport or service error, a response with no
\* output at all, one whose items hold no output_text content, the three texts of
\* Spec, a flat text behind an item without contents, a blank output_text content
ClientResponses == <<
    Response(TRUE, <<>>, <<>>),
    Response(FALSE, <<>>, <<>>),
    Response(FALSE, << <<OtherContent("reasoning")>>, <<OtherContent("web_search_call")>> >>, <<>>),
    Response(FALSE, << <<OtherContent("reasoning"), OutputText(TEXT_READY_HEAD)>>,
                       <<OutputText(TEXT_READY_TAIL)>> >>, <<>>),
    Response(FALSE, <<>>, TEXT_NO_FENCE),
    Response(FALSE, << <<OtherContent("web_search_call")>> >>, TEXT_BAD_JSON),
    Response(FALSE, << <<>> >>, TEXT_READY_HEAD \o TEXT_READY_TAIL),
    Response(FALSE, << <<OutputText(<<" ">>)>> >>, <<>>)
>>

ClientInit ==
    /\ SysIdle
    /\ input \in [file_id : ClientFileIds, role_description : ClientDescriptions]
    /\ output = NotCalled

\* lines 110-151: the precondition, then the one responses.create call
ClientCall(response) ==
    /\ output = NotCalled
    /\ \E returned \in {_request_openai_analysis(input.file_id, input.role_description, response)} :
           output' = IF returned.called
                     THEN [called |-> TRUE, stage |-> "called", calls |-> 1, response |-> response,
                           sent |-> returned.sent, exc |-> NoException, payload |-> JNull]
                     ELSE [called |-> TRUE, stage |-> "returned", calls |-> 0, response |-> NoResponse,
                           sent |-> returned.sent, exc |-> returned.exc, payload |-> JNull]
    /\ UNCHANGED <<input, sysVars>>

\* lines 152-161: the output text is read and decoded, or the except clauses raise
ClientReturn ==
    /\ output.called
    /\ output.stage = "called"
    /\ \E returned \in {_request_openai_analysis(input.file_id, input.role_description, output.response)} :
           output' = [output EXCEPT !.stage = "returned", !.exc = returned.exc,
                                    !.payload = returned.payload]
    /\ UNCHANGED <<input, sysVars>>

ClientNext ==
    \/ \E i \in 1..Len(ClientResponses) : ClientCall(ClientResponses[i])
    \/ ClientReturn

SpecClient == ClientInit /\ [][ClientNext]_vars

\* the call failed, or its output holds no text by the item list or the flat text
ClientFailure(response) ==
    \/ response.raises
    \/ /\ OutputChunks(response.output) = <<>>
       /\ response.output_text = <<>>

\* C11: an invocation of _request_openai_analysis makes at most one analysis call
\* and never a second one; when that call fails, or its response holds no textual
\* output by the item list or the flat text, the function raises AnalysisError and
\* no other exception.
C11_OneCallAnalysisError ==
    output.called =>
        /\ output.calls <= 1
        /\ (output.stage = "returned" /\ output.calls = 1 /\ ClientFailure(output.response))
              => output.exc = "AnalysisError"
        /\ (output.stage = "returned" /\ output.calls = 1)
              => output.exc \in {NoException, "AnalysisError"}

\* C11 witness: the one call returned a response without any text and the function
\* raised AnalysisError
C11_Witness ==
    /\ output.called
    /\ output.stage = "returned"
    /\ output.calls = 1
    /\ ~output.response.raises
    /\ ClientFailure(output.response)
    /\ output.exc = "AnalysisError"

(***************************************************************************)
(* SpecExtractor: extract_and_load_json applied to one text.  A wrapped    *)
(* text is prose, the fence tagged json, a newline, the text of a JSON     *)
(* object, a newline, the fence, prose; a raw text is any other text.      *)
(***************************************************************************)
\* well-formed JSON objects: their text and the Python value they denote
JsonObjects == <<
    [text |-> <<"{", "}">>, value |-> JDict(<<>>)],
    [text |-> <<"{", "\"readiness_score\"", ":", "90", "}">>,
     value |-> JDict(<< <<"readiness_score", JInt(90)>> >>)],
    [text |-> <<"{", NL, " ", "\"risk_signals\"", ":", " ", "{", "\"risk_score\"", ":", "3", "}", ",", NL,
                " ", "\"duty_sample\"", ":", " ", "[", "\"Designing\"", ",", " ", "null", "]", NL, "}">>,
     value |-> JDict(<< <<"risk_signals", JDict(<< <<"risk_score", JInt(3)>> >>)>>,
                        <<"duty_sample", JList(<<JStr(<<"Designing">>), JNull>>)>> >>)],
    [text |-> <<"{", "\"risk_signals\"", ":", "{", "\"time_horizon\"", ":", "\"5-8 years\"", "}", NL, "}">>,
     value |-> JDict(<< <<"risk_signals", JDict(<< <<"time_horizon", JStr(<<"5-8 years">>)>> >>)>> >>)],
    [text |-> <<"{", "\"risk_score\"", ":", "30", ",", "\"risk_score\"", ":", "70", "}">>,
     value |-> JDict(<< <<"risk_score", JInt(70)>> >>)],
    [text |-> <<"{", "\"readiness_score\"", ":", "1e999", ",", "\"duty_sample\"", ":", "[", "]", "}">>,
     value |-> JDict(<< <<"readiness_score", JInf(1)>>, <<"duty_sample", JList(<<>>)>> >>)]
>>

\* commentary the service may put before the block; the last two hold the opening
\* of a fenced json block themselves
ProseBefore == <<
    <<>>,
    <<"Here", " ", "it", " ", "is:", NL>>,
    <<"{", "}", " ", "means", " ", "empty.", NL>>,
    <<FENCE, NL, "x", NL, FENCE, NL>>,
    <<"Write", " ", FENCE, "json", NL, "{", " ", "first.", NL>>,
    <<"Schema:", NL, FENCE, "json", NL, "{", "}", NL, FENCE, NL>>
>>

\* commentary the service may put after the block
ProseAfter == <<
    <<>>,
    <<NL, "Done.", NL>>,
    <<NL, "{", "}", NL, FENCE, NL>>,
    <<NL, FENCE, "json", NL, "{", "\"risk_score\"", ":", "70", "}", NL, FENCE>>
>>

\* texts that hold no block of the pattern, or one whose capture does not decode
RawTexts == <<
    TEXT_NO_FENCE,
    TEXT_BAD_JSON,
    <<>>,
    <<FENCE, "json", " ", "{", "}", " ", FENCE>>,
    <<FENCE, "json", NL, "[", "3", "]", NL, FENCE>>,
    <<FENCE, NL, "{", "}", NL, FENCE>>,
    <<FENCE, "json", NL, "{", "}", FENCE>>,
    <<FENCE, "json", NL, "{", "\"risk_score\"", ":", "70", NL, FENCE>>,
    <<FENCE, "json", NL, "{", "70", ":", "3", "}", NL, FENCE>>
>>

Wrap(before, object, after) == before \o <<FENCE, "json", NL>> \o object \o <<NL, FENCE>> \o after

ExtractorInit ==
    /\ SysIdle
    /\ \/ \E b \in 1..Len(ProseBefore), j \in 1..Len(JsonObjects), a \in 1..Len(ProseAfter) :
             input = [wrapped |-> TRUE, before |-> ProseBefore[b], after |-> ProseAfter[a],
                      object |-> JsonObjects[j].value,
                      text |-> Wrap(ProseBefore[b], JsonObjects[j].text, ProseAfter[a])]
       \/ \E i \in 1..Len(RawTexts) :
             input = [wrapped |-> FALSE, before |-> <<>>, after |-> <<>>, object |-> JNull, text |-> RawTexts[i]]
    /\ output = NotCalled

ExtractorApply ==
    /\ output = NotCalled
    /\ output' = [called |-> TRUE, payload |-> extract_and_load_json(input.text)]
    /\ UNCHANGED <<input, sysVars>>

ExtractorNext == ExtractorApply

SpecExtractor == ExtractorInit /\ [][ExtractorNext]_vars

\* the prose before the block holds the opening of a fenced json block
OpensFence(prose) == \E i \in 1..Len(prose) : FenceOpensAt(prose, i)

\* C12 as stated: whatever the prose before and after, the extractor returns an
\* object equal to the wrapped one; on every text it returns an object or no payload.
C12_RoundTripAnyProse ==
    output.called =>
        /\ input.wrapped => output.payload = input.object
        /\ output.payload.t \in {"dict", "null"}

\* C12, amended: when the prose before the block does not itself open a fenced json
\* block, the extractor returns an object equal to the wrapped one, whatever the
\* prose after; on every text it returns an object or no payload, and no payload
\* when the pattern is not found or the capture does not decode.
C12_RoundTrip ==
    output.called =>
        /\ (input.wrapped /\ ~OpensFence(input.before)) => output.payload = input.object
        /\ output.payload.t \in {"dict", "null"}
        /\ ~input.wrapped => output.payload = JNull

\* C12 witness: a multi-line object with a nested object, behind prose and before
\* a second fenced block, came back equal
C12_Witness ==
    /\ output.called
    /\ input.wrapped
    /\ Len(input.before) > 0 /\ ~OpensFence(input.before)
    /\ OpensFence(input.after)
    /\ Len(input.object.pairs) = 2
    /\ output.payload = input.object

\* C13: in every AssessmentResult that _parse_payload returns (SpecNormalizer),
\* duty_sample is a non-empty sequence of strings of at most 8 items, whatever the
\* upstream duty_sample is; it is the single placeholder item when the sanitized
\* upstream sequence is empty.
C13_DutySampleBounded ==
    (output.called /\ output.exc = NoException) =>
        /\ IsStrList(output.result.duty_sample)
        /\ Len(output.result.duty_sample) >= 1
        /\ Len(output.result.duty_sample) <= 8
        /\ _safe_list(Get(input, "duty_sample")) = <<>>
              => output.result.duty_sample = DUTY_SAMPLE_DEFAULT

\* C14: in form_valid (Spec) the quota is consulted before any outbound call and
\* written only by the step that ends a request whose analysis, with the delete of
\* the remote handle on the document path, completed with a result; a request
\* that observes runs_remaining <= 0 makes no upload, analysis or delete call,
\* gets the error message, and leaves runs_remaining as it was.
C14_QuotaGateOrdering ==
    /\ [](\A r \in Requests :
            /\ (pc[r] \in {"upload", "request", "delete"} \/ req[r].uploads + req[r].calls + req[r].deletes > 0)
                  => (req[r].profile_runs > 0 \/ req[r].decrement_called)
            /\ pc[r] \in {"idle", "form_valid"}
                  => req[r].uploads + req[r].calls + req[r].deletes = 0
            /\ req[r].decrement_called
                  => /\ pc[r] = "done"
                     /\ req[r].outcome.kind = "result"
                     /\ req[r].calls = 1
                     /\ req[r].uploaded_file.present => (req[r].uploads = 1 /\ req[r].deletes = 1)
            /\ req[r].outcome.message = MSG_QUOTA_USED
                  => /\ req[r].outcome.kind = "error"
                     /\ req[r].profile_runs <= 0
                     /\ req[r].uploads + req[r].calls + req[r].deletes = 0
                     /\ ~req[r].decrement_called)
    /\ [][/\ \A r \in Requests :
               (pc[r] = "form_valid" /\ pc'[r] # "form_valid" /\ runs_remaining <= 0)
                  => /\ pc'[r] = "done"
                     /\ req'[r].outcome.message = MSG_QUOTA_USED
                     /\ runs_remaining' = runs_remaining
          /\ runs_remaining' # runs_remaining
               => \E r \in Requests :
                     /\ pc[r] = (IF req[r].uploaded_file.present THEN "delete" ELSE "request")
                     /\ pc'[r] = "done"
                     /\ req'[r].outcome.kind = "result"
                     /\ req'[r].decrement_called]_vars

\* C14 witness: the allowance is used up by a successful analysis and a later
\* request is turned away at the gate without any outbound call
C14_Witness ==
    /\ allowance > 0
    /\ runs_remaining = 0
    /\ succeeded > 0
    /\ \E r \in Requests :
          /\ pc[r] = "done"
          /\ req[r].outcome.message = MSG_QUOTA_USED
          /\ req[r].uploads + req[r].calls + req[r].deletes = 0

====
